---------------------------- MODULE Spec2Model ----------------------------
(***************************************************************************)
(* A model of the two ASR/AST service variants of this repository:         *)
(*   "root" : src/main.py                                                  *)
(*   "asr"  : src/asr-service/main.py                                      *)
(* Text is a sequence of one-character strings, so that strip(),           *)
(* startswith(), lower() and slicing are computed as Python computes them. *)
(***************************************************************************)
EXTENDS Integers, Sequences, FiniteSets, TLC

VARIABLES
    variant,            \* which of the two files is the running service
    boot,               \* position of startup_event
    whisper_model,      \* global whisper_model: TRUE when a model is loaded
    ollama_available,   \* global ollama_available
    tmpfiles,           \* names of the temporary files that exist on disk
    inflight,           \* per connection: the request suspended at its await
    last,               \* the request that finished most recently
    genFailed,          \* some generative-service call of a handler has failed
    call                \* a direct application of enhance / translate

vars == <<variant, boot, whisper_model, ollama_available, tmpfiles,
          inflight, last, genFailed, call>>

-----------------------------------------------------------------------------
(* Characters and Python string operations                                 *)

QUOTE == "\""
COLON == ":"
SPACE == " "

\* str.lower() on the characters that occur in the model's texts
Lower(c) ==
    CASE c = "A" -> "a" [] c = "C" -> "c" [] c = "D" -> "d" [] c = "E" -> "e"
      [] c = "F" -> "f" [] c = "G" -> "g" [] c = "H" -> "h" [] c = "I" -> "i"
      [] c = "J" -> "j" [] c = "K" -> "k" [] c = "P" -> "p" [] c = "R" -> "r"
      [] c = "S" -> "s" [] c = "T" -> "t"
      [] OTHER -> c

LowerStr(s) == [i \in 1..Len(s) |-> Lower(s[i])]

\* the characters str.strip() with no argument removes
Whitespace == {" ", "\t", "\n"}

\* s[n:]
Drop(s, n) == SubSeq(s, n + 1, Len(s))

\* s.startswith(p)
StartsWith(s, p) == Len(p) <= Len(s) /\ SubSeq(s, 1, Len(p)) = p

\* s.endswith(p)
EndsWith(s, p) == Len(p) <= Len(s) /\ SubSeq(s, Len(s) - Len(p) + 1, Len(s)) = p

RECURSIVE LStripSet(_, _)
LStripSet(s, cs) ==
    IF s # <<>> /\ Head(s) \in cs THEN LStripSet(Tail(s), cs) ELSE s

RECURSIVE RStripSet(_, _)
RStripSet(s, cs) ==
    IF s # <<>> /\ s[Len(s)] \in cs THEN RStripSet(SubSeq(s, 1, Len(s) - 1), cs) ELSE s

\* s.strip(): all leading and trailing whitespace
Strip(s) == RStripSet(LStripSet(s, Whitespace), Whitespace)

\* s.strip(c): every leading and trailing occurrence of the character c
StripChar(s, c) == RStripSet(LStripSet(s, {c}), {c})

\* s.lstrip(c)
LStripChar(s, c) == LStripSet(s, {c})

-----------------------------------------------------------------------------
(* Configuration                                                           *)

SUPPORTED_LANGUAGES ==
    "en" :> <<"E", "n", "g", "l", "i", "s", "h">> @@
    "es" :> <<"S", "p", "a", "n", "i", "s", "h">> @@
    "fr" :> <<"F", "r", "e", "n", "c", "h">> @@
    "de" :> <<"G", "e", "r", "m", "a", "n">> @@
    "it" :> <<"I", "t", "a", "l", "i", "a", "n">> @@
    "pt" :> <<"P", "o", "r", "t", "u", "g", "u", "e", "s", "e">> @@
    "ru" :> <<"R", "u", "s", "s", "i", "a", "n">> @@
    "ja" :> <<"J", "a", "p", "a", "n", "e", "s", "e">> @@
    "ko" :> <<"K", "o", "r", "e", "a", "n">> @@
    "zh" :> <<"C", "h", "i", "n", "e", "s", "e">> @@
    "ar" :> <<"A", "r", "a", "b", "i", "c">> @@
    "hi" :> <<"H", "i", "n", "d", "i">> @@
    "tr" :> <<"T", "u", "r", "k", "i", "s", "h">> @@
    "pl" :> <<"P", "o", "l", "i", "s", "h">> @@
    "nl" :> <<"D", "u", "t", "c", "h">>

\* a language code as text; "xx" is a code outside SUPPORTED_LANGUAGES
CodeText(code) ==
    IF code = "xx" THEN <<"x", "x">>
    ELSE <<>>

\* target_lang_name = SUPPORTED_LANGUAGES.get(target_language, target_language)
TargetLangName(target_language) ==
    IF target_language \in DOMAIN SUPPORTED_LANGUAGES
    THEN SUPPORTED_LANGUAGES[target_language]
    ELSE CodeText(target_language)

\* the list the translate loop iterates, in its order
PrefixesToRemove(target_language) ==
    << <<"T", "r", "a", "n", "s", "l", "a", "t", "i", "o", "n", ":">>,
       <<"T", "r", "a", "n", "s", "l", "a", "t", "i", "o", "n", " ", "i", "n">>,
       TargetLangName(target_language) \o <<":">>,
       <<"H", "e", "r", "e", " ", "i", "s", " ", "t", "h", "e", " ",
         "t", "r", "a", "n", "s", "l", "a", "t", "i", "o", "n", ":">>,
       <<"T", "h", "e", " ", "t", "r", "a", "n", "s", "l", "a", "t", "i", "o", "n",
         " ", "i", "s", ":">> >>

-----------------------------------------------------------------------------
(* The generative service's answer to one HTTP call                        *)
(*   kind  "timeout" / "connerr": requests raises                          *)
(*   kind  "status": an answer with status code `code`; for 200, `body` is *)
(*     "undecodable" : response.json() raises                              *)
(*     "nonobject"   : JSON that is no object (it has no .get)             *)
(*     "noresp"      : an object without a "response" field                *)
(*     "nonstr"      : an object whose "response" is not a string          *)
(*     "text"        : an object whose "response" is the string `resp`     *)

Outcome(k, c, b, r) == [kind |-> k, code |-> c, body |-> b, resp |-> r]

NoOutcome == Outcome("none", 0, "none", <<>>)

\* what a helper's code produced: a value, or an exception. `called` tells
\* whether the generative service was called; for a cleaned answer the record
\* keeps the input and output of the quote step and of the prefix loop, and
\* the list entries the loop removed.
Result(e, t, c, cl, qi, qo, pi, po, ap) ==
    [exc |-> e, out |-> t, called |-> c, cleaned |-> cl,
     qin |-> qi, qout |-> qo, pin |-> pi, pout |-> po, applied |-> ap]

\* `return text` before any call is made
PassThrough(text) == Result("none", text, FALSE, FALSE, <<>>, <<>>, <<>>, <<>>, <<>>)

Value(t) == Result("none", t, TRUE, FALSE, <<>>, <<>>, <<>>, <<>>, <<>>)

Raise(e) == Result(e, <<>>, TRUE, FALSE, <<>>, <<>>, <<>>, <<>>, <<>>)

Cleaned(t, qi, qo, pi, po, ap) == Result("none", t, TRUE, TRUE, qi, qo, pi, po, ap)

NoResult == Result("none", <<>>, FALSE, FALSE, <<>>, <<>>, <<>>, <<>>, <<>>)

\* no direct application of enhance or translate
NoCall ==
    [phase |-> "none", fn |-> "none", text |-> <<>>, target |-> "none",
     avail |-> FALSE, outcome |-> NoOutcome, res |-> NoResult]

\* response.json().get("response", text): the string to clean, or an exception
ResponseField(text, o) ==
    CASE o.body = "undecodable" -> Raise("JSONDecodeError")
      [] o.body = "nonobject"   -> Raise("AttributeError")
      [] o.body = "nonstr"      -> Raise("AttributeError")
      [] o.body = "noresp"      -> Value(text)
      [] OTHER                  -> Value(o.resp)

\* requests.post(...): an exception of requests, or the answer
PostRaises(o) == o.kind \in {"timeout", "connerr"}

PostException(o) == IF o.kind = "timeout" THEN "Timeout" ELSE "ConnectionError"

-----------------------------------------------------------------------------
(* enhance and translate.  The prompt, the model name and the sampling     *)
(* options only travel to the service, whose answer is an input here; the  *)
(* source_language parameter of translate only enters the prompt.          *)

\* a handler for the exceptions of requests only
ExceptRequestsOnly(b, text) ==
    IF b.exc \in {"Timeout", "ConnectionError"} THEN Value(text) ELSE b

\* `except Exception as e: ... return text`
ExceptReturnText(b, text) == IF b.exc # "none" THEN Value(text) ELSE b

\* asr: enhanced = response.json().get("response", text).strip();
\*      return enhanced.strip('"')
EnhanceBodyAsr(text, o) ==
    IF PostRaises(o) THEN Raise(PostException(o))
    ELSE IF o.code = 200
         THEN LET f == ResponseField(text, o)
              IN  IF f.exc # "none" THEN f
                  ELSE LET enhanced == Strip(f.out)
                       IN  Cleaned(StripChar(enhanced, QUOTE), enhanced,
                                   StripChar(enhanced, QUOTE), <<>>, <<>>, <<>>)
         ELSE Value(text)

enhance_text_with_ollama_asr(text, avail, o) ==
    IF ~avail THEN PassThrough(text)
    ELSE ExceptReturnText(EnhanceBodyAsr(text, o), text)

\* asr: translated[len(prefix):].strip().lstrip(":").strip()
RemovePrefixAsr(translated, prefix) ==
    Strip(LStripChar(Strip(Drop(translated, Len(prefix))), COLON))

\* root: translated[len(prefix):].strip(), then one leading ':' and strip()
RemovePrefixRoot(translated, prefix) ==
    LET t == Strip(Drop(translated, Len(prefix)))
    IN  IF StartsWith(t, <<COLON>>) THEN Strip(Drop(t, 1)) ELSE t

\* a loop that starts the list again after every removal
RECURSIVE PrefixLoopAsrRestart(_, _, _, _)
PrefixLoopAsrRestart(translated, prefixes, i, applied) ==
    IF i > Len(prefixes) THEN [text |-> translated, applied |-> applied]
    ELSE IF StartsWith(LowerStr(translated), LowerStr(prefixes[i]))
         THEN PrefixLoopAsrRestart(RemovePrefixAsr(translated, prefixes[i]),
                                   prefixes, 1, Append(applied, i))
         ELSE PrefixLoopAsrRestart(translated, prefixes, i + 1, applied)

\* asr: for prefix in [...]: if translated.lower().startswith(prefix.lower()): ...
\* from list entry i on; `applied` collects the entries removed
RECURSIVE PrefixLoopAsr(_, _, _, _)
PrefixLoopAsr(translated, prefixes, i, applied) ==
    IF i > Len(prefixes) THEN [text |-> translated, applied |-> applied]
    ELSE IF StartsWith(LowerStr(translated), LowerStr(prefixes[i]))
         THEN PrefixLoopAsr(RemovePrefixAsr(translated, prefixes[i]),
                            prefixes, i + 1, Append(applied, i))
         ELSE PrefixLoopAsr(translated, prefixes, i + 1, applied)

\* root: for prefix in prefixes_to_remove: ...
RECURSIVE PrefixLoopRoot(_, _, _, _)
PrefixLoopRoot(translated, prefixes, i, applied) ==
    IF i > Len(prefixes) THEN [text |-> translated, applied |-> applied]
    ELSE IF StartsWith(LowerStr(translated), LowerStr(prefixes[i]))
         THEN PrefixLoopRoot(RemovePrefixRoot(translated, prefixes[i]),
                             prefixes, i + 1, Append(applied, i))
         ELSE PrefixLoopRoot(translated, prefixes, i + 1, applied)

\* asr: strip, prefix loop, then strip('"')
TranslateBodyAsr(text, target_language, o) ==
    IF PostRaises(o) THEN Raise(PostException(o))
    ELSE IF o.code = 200
         THEN LET f == ResponseField(text, o)
              IN  IF f.exc # "none" THEN f
                  ELSE LET translated == Strip(f.out)
                           loop == PrefixLoopAsr(translated,
                                       PrefixesToRemove(target_language), 1, <<>>)
                       IN  Cleaned(StripChar(loop.text, QUOTE), loop.text,
                                   StripChar(loop.text, QUOTE),
                                   translated, loop.text, loop.applied)
         ELSE Value(text)

translate_text_with_ollama_asr(text, target_language, avail, o) ==
    IF ~avail THEN PassThrough(text)
    ELSE ExceptReturnText(TranslateBodyAsr(text, target_language, o), text)

\* root: if translated.startswith('"') and translated.endswith('"'):
\*           translated = translated[1:-1]
QuotePairRoot(translated) ==
    IF StartsWith(translated, <<QUOTE>>) /\ EndsWith(translated, <<QUOTE>>)
    THEN SubSeq(translated, 2, Len(translated) - 1)
    ELSE translated

\* root: strip, one quote pair, then the prefix loop
TranslateBodyRoot(text, target_language, o) ==
    IF PostRaises(o) THEN Raise(PostException(o))
    ELSE IF o.code = 200
         THEN LET f == ResponseField(text, o)
              IN  IF f.exc # "none" THEN f
                  ELSE LET translated == Strip(f.out)
                           unquoted == QuotePairRoot(translated)
                           loop == PrefixLoopRoot(unquoted,
                                       PrefixesToRemove(target_language), 1, <<>>)
                       IN  Cleaned(loop.text, translated, unquoted,
                                   unquoted, loop.text, loop.applied)
         ELSE Value(text)

translate_text_with_ollama_root(text, target_language, avail, o) ==
    IF ~avail THEN PassThrough(text)
    ELSE ExceptReturnText(TranslateBodyRoot(text, target_language, o), text)

-----------------------------------------------------------------------------
(* The service: startup, then request handlers.  The handlers are          *)
(* coroutines on one event loop and every call they make is a blocking     *)
(* one, so a handler runs without interruption except at its one await,    *)
(* `await audio_file.read()`.                                              *)

Variants == {"root", "asr"}

\* the connections that can hold a request suspended at its await
MaxConns == 2

Conns == 1..MaxConns

\* the names tempfile can give out
MaxFiles == 2

FileNames == 1..MaxFiles

\* an upload's content_type: a string, or None when the part carries none
SomeType(t) == [present |-> TRUE, value |-> t]

NoneType == [present |-> FALSE, value |-> <<>>]

AudioPrefix == <<"a", "u", "d", "i", "o", "/">>

ContentTypes ==
    { SomeType(<<"a", "u", "d", "i", "o", "/", "w", "a", "v">>),
      SomeType(<<"t", "e", "x", "t", "/", "p", "l", "a", "i", "n">>),
      SomeType(<<>>),
      NoneType }

\* target_language of a request; "xx" is not a supported code
RequestTargets == {"es", "xx"}

\* what whisper_model.transcribe does: it raises, or returns {"text": text}
WhisperOutcomes ==
    { [raises |-> TRUE, msg |-> "cannot decode audio", text |-> <<>>],
      [raises |-> FALSE, msg |-> "", text |-> <<" ", "h", "o", "l", "a">>],
      [raises |-> FALSE, msg |-> "", text |-> <<"\"", "h", "o", "l", "a", "\"">>] }

NoWhisper == [raises |-> FALSE, msg |-> "", text |-> <<>>]

\* the text of a /translate request
RequestTexts == { <<"h", "o", "l", "a">>, <<" ", "\"", "h", "o", "l", "a">> }

\* the generative service's answers to the handlers' calls
ServiceOutcomes ==
    { Outcome("timeout", 0, "none", <<>>),
      Outcome("status", 500, "none", <<>>),
      Outcome("status", 200, "undecodable", <<>>),
      Outcome("status", 200, "noresp", <<>>),
      Outcome("status", 200, "text",
              <<"\"", "S", "p", "a", "n", "i", "s", "h", ":", " ", "h", "o", "l", "a", "\"">>) }

\* the answer was not a 200 answer: an exception of requests, or another status
IsFailure(o) == o.kind \in {"timeout", "connerr"} \/ (o.kind = "status" /\ o.code # 200)

NoBody ==
    [tag |-> "none", error |-> "", whisper_loaded |-> FALSE, ollama_available |-> FALSE]

Idle == [kind |-> "idle", ctype |-> NoneType, target |-> "none"]

\* a finished request: what was asked, what the handler did, what it answered.
\* `offered` is the answer the generative service had for an enhancement call
\* while the request ran; enh, tr and tags are the answers to the calls made;
\* `steps` lists the steps in the order the handler ran them and
\* `translateIn` is the text it handed to translate.
NoRequest ==
    [kind |-> "none", ctype |-> NoneType, target |-> "none", text |-> <<>>,
     status |-> 0, detail |-> <<>>,
     transcription |-> <<>>, enhanced_text |-> <<>>, translated_text |-> <<>>,
     body |-> NoBody, tmp |-> 0,
     whisperCalls |-> 0, enhanceCalls |-> 0, translateCalls |-> 0, genCalls |-> 0,
     steps |-> <<>>, translateIn |-> <<>>,
     whisper |-> NoWhisper, offered |-> NoOutcome,
     enh |-> NoOutcome, tr |-> NoOutcome, tags |-> NoOutcome,
     failedBefore |-> FALSE]

\* raise HTTPException(status_code, detail), as the framework answers it
HttpError(req, status_code, detail) ==
    [req EXCEPT !.status = status_code, !.detail = detail]

\* str(e) of an HTTPException: "<status_code>: <detail>"
StrHTTPException(status_code, detail) == <<ToString(status_code), ": ">> \o detail

Init ==
    /\ variant \in Variants
    /\ boot = "load"
    /\ whisper_model = FALSE
    /\ ollama_available = FALSE
    /\ tmpfiles = {}
    /\ inflight = [c \in Conns |-> Idle]
    /\ last = NoRequest
    /\ genFailed = FALSE
    /\ call = NoCall

(* startup_event *)

\* a startup that goes on to probe the generative service after a failed load
StartupLoadWhisperThenProbe ==
    /\ boot = "load"
    /\ \/ whisper_model' = TRUE /\ boot' = "probe"
       \/ whisper_model' = whisper_model /\ boot' = "probe"
    /\ UNCHANGED <<variant, ollama_available, tmpfiles, inflight, last, genFailed, call>>

\* whisper_model = whisper.load_model("tiny"); an exception ends the startup
StartupLoadWhisper ==
    /\ boot = "load"
    /\ \/ whisper_model' = TRUE /\ boot' = "probe"
       \/ whisper_model' = whisper_model /\ boot' = "serving"
    /\ UNCHANGED <<variant, ollama_available, tmpfiles, inflight, last, genFailed, call>>

\* requests.get(.../api/tags, timeout=10)
StartupProbeOllama ==
    /\ boot = "probe"
    /\ \E o \in {"200", "other", "exception"} :
         IF o = "200"
         THEN ollama_available' = TRUE /\ boot' = "pull"
         ELSE ollama_available' = ollama_available /\ boot' = "serving"
    /\ UNCHANGED <<variant, whisper_model, tmpfiles, inflight, last, genFailed, call>>

\* requests.post(.../api/pull, ...): its answer and its exceptions are not used
StartupPullModel ==
    /\ boot = "pull"
    /\ boot' = "serving"
    /\ UNCHANGED <<variant, whisper_model, ollama_available, tmpfiles, inflight,
                   last, genFailed, call>>

(* transcribe_audio *)

\* the name tempfile gives the next file: one that is not in use
FreshName(files) ==
    CHOOSE n \in FileNames : n \notin files /\ \A m \in 1..(n - 1) : m \in files

\* a transcribe_audio that answers a failure of the speech model with ""
transcribe_audio_swallow(files, w) ==
    LET name == FreshName(files)
    IN  [exc |-> FALSE, detail |-> <<>>, text |-> Strip(w.text),
         files |-> (files \cup {name}) \ {name}, tmp |-> name, calls |-> 1]

\* writes the upload to a NamedTemporaryFile(delete=False), calls the speech
\* model on it once, unlinks the file and returns the stripped text; an
\* exception of the speech model skips the unlink and becomes
\* HTTPException(500, "Transcription failed: <message>")
transcribe_audio(files, w) ==
    LET name == FreshName(files)
        written == files \cup {name}
    IN  IF w.raises
        THEN [exc |-> TRUE, detail |-> <<"Transcription failed: ", w.msg>>,
              text |-> <<>>, files |-> written, tmp |-> name, calls |-> 1]
        ELSE [exc |-> FALSE, detail |-> <<>>, text |-> Strip(w.text),
              files |-> written \ {name}, tmp |-> name, calls |-> 1]

(* validation, before the handlers' await *)

Passed == [status |-> 0, detail |-> <<>>]

Rejected(status_code, detail) == [status |-> status_code, detail |-> detail]

\* if not audio_file.content_type.startswith("audio/"): 400.
\* content_type None has no startswith: an AttributeError outside any try,
\* which the framework answers with 500 Internal Server Error
CheckContentType(ct) ==
    IF ~ct.present THEN Rejected(500, <<"Internal Server Error">>)
    ELSE IF ~StartsWith(ct.value, AudioPrefix)
         THEN Rejected(400, <<"File must be audio">>)
         ELSE Passed

\* /transcribe: model loaded, then content type
ValidateTranscribe(model, ct) ==
    IF ~model THEN Rejected(503, <<"Whisper model not loaded">>)
    ELSE CheckContentType(ct)

\* /transcribe-and-translate: model loaded, then target code, then content type
ValidateTranscribeAndTranslate(model, target_language, ct) ==
    IF ~model THEN Rejected(503, <<"Whisper model not loaded">>)
    ELSE IF target_language \notin DOMAIN SUPPORTED_LANGUAGES
         THEN Rejected(400, <<"Unsupported language: ", target_language>>)
         ELSE CheckContentType(ct)

(* the handlers after their await: the response and the files left on disk *)

Used(res, o) == IF res.called THEN o ELSE NoOutcome

Calls(res) == IF res.called THEN 1 ELSE 0

AfterWhisper(req, t, w) ==
    [req EXCEPT !.tmp = t.tmp, !.whisperCalls = t.calls, !.whisper = w,
                !.steps = Append(req.steps, "whisper")]

\* asr /transcribe: no try around the steps
transcribe_audio_endpoint_asr(req, files, avail, w, oe) ==
    LET t == transcribe_audio(files, w)
        r1 == AfterWhisper(req, t, w)
    IN  IF t.exc THEN [resp |-> HttpError(r1, 500, t.detail), files |-> t.files]
        ELSE LET e == enhance_text_with_ollama_asr(t.text, avail, oe)
                 r2 == [r1 EXCEPT !.enhanceCalls = 1, !.genCalls = Calls(e),
                                  !.enh = Used(e, oe),
                                  !.steps = Append(r1.steps, "enhance")]
             IN  IF e.exc # "none"
                 THEN [resp |-> HttpError(r2, 500, <<"Internal Server Error">>),
                       files |-> t.files]
                 ELSE [resp |-> [r2 EXCEPT !.status = 200,
                                           !.transcription = t.text,
                                           !.enhanced_text = e.out],
                       files |-> t.files]

\* root /transcribe: the steps run in try ... except Exception as e:
\* raise HTTPException(500, detail=str(e)); the file defines no
\* enhance_text_with_ollama, so the call of it raises NameError
transcribe_audio_endpoint_root(req, files, avail, w, oe) ==
    LET t == transcribe_audio(files, w)
        r1 == AfterWhisper(req, t, w)
    IN  IF t.exc
        THEN [resp |-> HttpError(r1, 500, StrHTTPException(500, t.detail)),
              files |-> t.files]
        ELSE [resp |-> HttpError(r1, 500,
                           <<"name 'enhance_text_with_ollama' is not defined">>),
              files |-> t.files]

\* asr /transcribe-and-translate
transcribe_and_translate_endpoint_asr(req, files, avail, w, oe, ot) ==
    LET t == transcribe_audio(files, w)
        r1 == AfterWhisper(req, t, w)
    IN  IF t.exc THEN [resp |-> HttpError(r1, 500, t.detail), files |-> t.files]
        ELSE LET e == enhance_text_with_ollama_asr(t.text, avail, oe)
                 r2 == [r1 EXCEPT !.enhanceCalls = 1, !.genCalls = Calls(e),
                                  !.enh = Used(e, oe),
                                  !.steps = Append(r1.steps, "enhance")]
             IN  IF e.exc # "none"
                 THEN [resp |-> HttpError(r2, 500, <<"Internal Server Error">>),
                       files |-> t.files]
                 ELSE LET tr == translate_text_with_ollama_asr(
                                    e.out, req.target, avail, ot)
                          r3 == [r2 EXCEPT !.translateCalls = 1,
                                           !.genCalls = Calls(e) + Calls(tr),
                                           !.tr = Used(tr, ot),
                                           !.steps = Append(r2.steps, "translate"),
                                           !.translateIn = e.out]
                      IN  IF tr.exc # "none"
                          THEN [resp |-> HttpError(r3, 500, <<"Internal Server Error">>),
                                files |-> t.files]
                          ELSE [resp |-> [r3 EXCEPT !.status = 200,
                                                    !.transcription = t.text,
                                                    !.enhanced_text = e.out,
                                                    !.translated_text = tr.out],
                                files |-> t.files]

\* root /transcribe-and-translate: as root /transcribe, the NameError included
transcribe_and_translate_endpoint_root(req, files, avail, w, oe, ot) ==
    LET t == transcribe_audio(files, w)
        r1 == AfterWhisper(req, t, w)
    IN  IF t.exc
        THEN [resp |-> HttpError(r1, 500, StrHTTPException(500, t.detail)),
              files |-> t.files]
        ELSE [resp |-> HttpError(r1, 500,
                           <<"name 'enhance_text_with_ollama' is not defined">>),
              files |-> t.files]

\* asr /translate
translate_text_endpoint_asr(req, avail, o) ==
    IF req.target \notin DOMAIN SUPPORTED_LANGUAGES
    THEN HttpError(req, 400, <<"Unsupported language: ", req.target>>)
    ELSE LET tr == translate_text_with_ollama_asr(req.text, req.target, avail, o)
             r1 == [req EXCEPT !.translateCalls = 1, !.genCalls = Calls(tr),
                               !.tr = Used(tr, o),
                               !.steps = Append(req.steps, "translate"),
                               !.translateIn = req.text]
         IN  IF tr.exc # "none" THEN HttpError(r1, 500, <<"Internal Server Error">>)
             ELSE [r1 EXCEPT !.status = 200, !.translated_text = tr.out]

\* root /translate: the call runs in try ... except Exception
translate_text_endpoint_root(req, avail, o) ==
    IF req.target \notin DOMAIN SUPPORTED_LANGUAGES
    THEN HttpError(req, 400, <<"Unsupported target language: ", req.target>>)
    ELSE LET tr == translate_text_with_ollama_root(req.text, req.target, avail, o)
             r1 == [req EXCEPT !.translateCalls = 1, !.genCalls = Calls(tr),
                               !.tr = Used(tr, o),
                               !.steps = Append(req.steps, "translate"),
                               !.translateIn = req.text]
         IN  IF tr.exc # "none" THEN HttpError(r1, 500, <<tr.exc>>)
             ELSE [r1 EXCEPT !.status = 200, !.translated_text = tr.out]

\* /health
health_check(req, model, avail) ==
    [req EXCEPT !.status = 200,
                !.body = [tag |-> "health", error |-> "",
                          whisper_loaded |-> model, ollama_available |-> avail]]

\* the answers of GET /api/tags to /models
ModelsOutcomes ==
    { Outcome("timeout", 0, "none", <<>>),
      Outcome("connerr", 0, "none", <<>>),
      Outcome("status", 500, "none", <<>>),
      Outcome("status", 200, "undecodable", <<>>),
      Outcome("status", 200, "json", <<>>) }

ErrorBody(msg) == [NoBody EXCEPT !.tag = "error", !.error = msg]

\* /models, the try body: requests.get, then response.json() on a 200 answer
ModelsTry(o) ==
    IF PostRaises(o) THEN [exc |-> PostException(o), body |-> NoBody]
    ELSE IF o.code = 200
         THEN IF o.body = "undecodable"
              THEN [exc |-> "JSONDecodeError", body |-> NoBody]
              ELSE [exc |-> "none", body |-> [NoBody EXCEPT !.tag = "models"]]
         ELSE [exc |-> "none", body |-> ErrorBody("Could not fetch models")]

\* a handler whose try body is not guarded: the exception leaves it
ModelsNoExcept(b) == b

\* /models: except Exception as e: return {"error": str(e)}
ModelsExcept(b) ==
    IF b.exc # "none" THEN [exc |-> "none", body |-> ErrorBody(b.exc)] ELSE b

get_available_models(req, avail, o) ==
    IF ~avail
    THEN [req EXCEPT !.status = 200, !.body = ErrorBody("Ollama not available")]
    ELSE LET b == ModelsExcept(ModelsTry(o))
             r1 == [req EXCEPT !.genCalls = 1, !.tags = o]
         IN  IF b.exc # "none" THEN HttpError(r1, 500, <<"Internal Server Error">>)
             ELSE [r1 EXCEPT !.status = 200, !.body = b.body]

(* the requests *)

NewRequest(kind, ct, target_language, text) ==
    [NoRequest EXCEPT !.kind = kind, !.ctype = ct, !.target = target_language,
                      !.text = text, !.failedBefore = genFailed]

\* a handler that takes a failed call as reason to clear ollama_available
FlagsClearedOnFailure(resp) ==
    /\ whisper_model' = whisper_model
    /\ ollama_available' =
         (ollama_available /\ ~(IsFailure(resp.enh) \/ IsFailure(resp.tr)
                                   \/ IsFailure(resp.tags)))

\* no handler declares `global`: none assigns whisper_model or ollama_available
HandlerFlags(resp) ==
    /\ whisper_model' = whisper_model
    /\ ollama_available' = ollama_available

Failed(resp) == IsFailure(resp.enh) \/ IsFailure(resp.tr)

\* POST /transcribe up to `await audio_file.read()`
TranscribeBegin(c) ==
    /\ boot = "serving"
    /\ inflight[c] = Idle
    /\ \E ct \in ContentTypes :
         LET req == NewRequest("transcribe", ct, "none", <<>>)
             v == ValidateTranscribe(whisper_model, ct)
         IN  IF v.status # 0
             THEN /\ last' = HttpError(req, v.status, v.detail)
                  /\ UNCHANGED inflight
             ELSE /\ inflight' = [inflight EXCEPT ![c] =
                                     [kind |-> "transcribe", ctype |-> ct, target |-> "none"]]
                  /\ UNCHANGED last
    /\ UNCHANGED <<variant, boot, whisper_model, ollama_available, tmpfiles,
                   genFailed, call>>

\* POST /transcribe from the await to the response
TranscribeFinish(c) ==
    /\ inflight[c].kind = "transcribe"
    /\ tmpfiles # FileNames
    /\ \E w \in WhisperOutcomes, oe \in ServiceOutcomes :
         LET req == [NewRequest("transcribe", inflight[c].ctype, "none", <<>>)
                        EXCEPT !.offered = oe]
             r == IF variant = "asr"
                  THEN transcribe_audio_endpoint_asr(req, tmpfiles, ollama_available, w, oe)
                  ELSE transcribe_audio_endpoint_root(req, tmpfiles, ollama_available, w, oe)
         IN  /\ last' = r.resp
             /\ tmpfiles' = r.files
             /\ genFailed' = (genFailed \/ Failed(r.resp))
             /\ HandlerFlags(r.resp)
    /\ inflight' = [inflight EXCEPT ![c] = Idle]
    /\ UNCHANGED <<variant, boot, call>>

\* POST /transcribe-and-translate up to `await audio_file.read()`
TranscribeAndTranslateBegin(c) ==
    /\ boot = "serving"
    /\ inflight[c] = Idle
    /\ \E ct \in ContentTypes, tl \in RequestTargets :
         LET req == NewRequest("transcribe-and-translate", ct, tl, <<>>)
             v == ValidateTranscribeAndTranslate(whisper_model, tl, ct)
         IN  IF v.status # 0
             THEN /\ last' = HttpError(req, v.status, v.detail)
                  /\ UNCHANGED inflight
             ELSE /\ inflight' = [inflight EXCEPT ![c] =
                                     [kind |-> "transcribe-and-translate",
                                      ctype |-> ct, target |-> tl]]
                  /\ UNCHANGED last
    /\ UNCHANGED <<variant, boot, whisper_model, ollama_available, tmpfiles,
                   genFailed, call>>

\* POST /transcribe-and-translate from the await to the response
TranscribeAndTranslateFinish(c) ==
    /\ inflight[c].kind = "transcribe-and-translate"
    /\ tmpfiles # FileNames
    /\ \E w \in WhisperOutcomes, oe \in ServiceOutcomes, ot \in ServiceOutcomes :
         LET req == [NewRequest("transcribe-and-translate", inflight[c].ctype,
                                inflight[c].target, <<>>) EXCEPT !.offered = oe]
             r == IF variant = "asr"
                  THEN transcribe_and_translate_endpoint_asr(
                           req, tmpfiles, ollama_available, w, oe, ot)
                  ELSE transcribe_and_translate_endpoint_root(
                           req, tmpfiles, ollama_available, w, oe, ot)
         IN  /\ last' = r.resp
             /\ tmpfiles' = r.files
             /\ genFailed' = (genFailed \/ Failed(r.resp))
             /\ HandlerFlags(r.resp)
    /\ inflight' = [inflight EXCEPT ![c] = Idle]
    /\ UNCHANGED <<variant, boot, call>>

\* POST /translate: the handler has no await
Translate ==
    /\ boot = "serving"
    /\ \E text \in RequestTexts, tl \in RequestTargets, o \in ServiceOutcomes :
         LET req == NewRequest("translate", NoneType, tl, text)
             resp == IF variant = "asr"
                     THEN translate_text_endpoint_asr(req, ollama_available, o)
                     ELSE translate_text_endpoint_root(req, ollama_available, o)
         IN  /\ last' = resp
             /\ genFailed' = (genFailed \/ Failed(resp))
             /\ HandlerFlags(resp)
    /\ UNCHANGED <<variant, boot, tmpfiles, inflight, call>>

\* GET /health
Health ==
    /\ boot = "serving"
    /\ LET resp == health_check(NewRequest("health", NoneType, "none", <<>>),
                                whisper_model, ollama_available)
       IN  last' = resp /\ HandlerFlags(resp)
    /\ UNCHANGED <<variant, boot, tmpfiles, inflight, genFailed, call>>

\* GET /models
Models ==
    /\ boot = "serving"
    /\ \E o \in ModelsOutcomes :
         LET resp == get_available_models(NewRequest("models", NoneType, "none", <<>>),
                                          ollama_available, o)
         IN  last' = resp /\ HandlerFlags(resp)
    /\ UNCHANGED <<variant, boot, tmpfiles, inflight, genFailed, call>>

Next ==
    \/ StartupLoadWhisper
    \/ StartupProbeOllama
    \/ StartupPullModel
    \/ \E c \in Conns : TranscribeBegin(c)
    \/ \E c \in Conns : TranscribeFinish(c)
    \/ \E c \in Conns : TranscribeAndTranslateBegin(c)
    \/ \E c \in Conns : TranscribeAndTranslateFinish(c)
    \/ Translate
    \/ Health
    \/ Models

Spec == Init /\ [][Next]_vars

-----------------------------------------------------------------------------
(* Direct applications of enhance and translate to bounded inputs          *)

\* the longest answer of the generative service, in tokens
MaxAnswerTokens == 3

AnswerTokens ==
    { <<SPACE>>, <<QUOTE>>, <<COLON>>,
      <<"h", "o", "l", "a">>,
      <<"T", "r", "a", "n", "s", "l", "a", "t", "i", "o", "n", ":">>,
      <<"t", "r", "a", "n", "s", "l", "a", "t", "i", "o", "n", " ", "i", "n">>,
      <<"S", "p", "a", "n", "i", "s", "h", ":">>,
      <<"T", "h", "e", " ", "t", "r", "a", "n", "s", "l", "a", "t", "i", "o", "n",
        " ", "i", "s", ":">> }

RECURSIVE TokenStrings(_)
TokenStrings(n) ==
    IF n = 0 THEN {<<>>}
    ELSE LET S == TokenStrings(n - 1)
         IN  S \cup {s \o t : s \in S, t \in AnswerTokens}

Answers == TokenStrings(MaxAnswerTokens)

\* the texts handed to enhance and translate
InputTexts ==
    { <<>>,
      <<"h", "o", "l", "a">>,
      <<" ", "h", "o", "l", "a", " ">>,
      <<"\"", "h", "o", "l", "a", "\"">>,
      <<"\"", "h", "o", "l", "a">>,
      <<"T", "r", "a", "n", "s", "l", "a", "t", "i", "o", "n", ":", " ",
        "h", "o", "l", "a">> }

\* the target codes of calls the service answers; "xx" is an unmapped code
CallTargets == {"es", "xx"}

AllTargets == DOMAIN SUPPORTED_LANGUAGES \cup {"xx"}

FailedOutcomes ==
    { Outcome("timeout", 0, "none", <<>>),
      Outcome("connerr", 0, "none", <<>>),
      Outcome("status", 500, "none", <<>>),
      Outcome("status", 404, "none", <<>>) }

MalformedOutcomes ==
    { Outcome("status", 200, b, <<>>) :
        b \in {"undecodable", "nonobject", "noresp", "nonstr"} }

TextOutcomes(answers) == { Outcome("status", 200, "text", a) : a \in answers }

GenOutcomes == FailedOutcomes \cup MalformedOutcomes \cup TextOutcomes(Answers)

\* the answers a call can get: none when the function makes no call
OutcomesFor(avail) == IF avail THEN GenOutcomes ELSE {NoOutcome}

CallEnhanceAsr ==
    /\ variant = "asr"
    /\ call.phase = "ready"
    /\ \E o \in OutcomesFor(call.avail) :
         call' = [call EXCEPT !.phase = "returned", !.fn = "enhance_asr",
                              !.outcome = o,
                              !.res = enhance_text_with_ollama_asr(call.text, call.avail, o)]
    /\ UNCHANGED <<variant, boot, whisper_model, ollama_available, tmpfiles,
                   inflight, last, genFailed>>

CallTranslateAsr ==
    /\ variant = "asr"
    /\ call.phase = "ready"
    /\ \E o \in OutcomesFor(call.avail) :
         call' = [call EXCEPT !.phase = "returned", !.fn = "translate_asr",
                              !.outcome = o,
                              !.res = translate_text_with_ollama_asr(
                                          call.text, call.target, call.avail, o)]
    /\ UNCHANGED <<variant, boot, whisper_model, ollama_available, tmpfiles,
                   inflight, last, genFailed>>

CallTranslateRoot ==
    /\ variant = "root"
    /\ call.phase = "ready"
    /\ \E o \in OutcomesFor(call.avail) :
         call' = [call EXCEPT !.phase = "returned", !.fn = "translate_root",
                              !.outcome = o,
                              !.res = translate_text_with_ollama_root(
                                          call.text, call.target, call.avail, o)]
    /\ UNCHANGED <<variant, boot, whisper_model, ollama_available, tmpfiles,
                   inflight, last, genFailed>>

\* the service unavailable: every code; available: the codes of CallTargets
InitText ==
    /\ variant \in Variants
    /\ boot = "load"
    /\ whisper_model = FALSE
    /\ ollama_available = FALSE
    /\ tmpfiles = {}
    /\ inflight = [c \in Conns |-> Idle]
    /\ last = NoRequest
    /\ genFailed = FALSE
    /\ \E text \in InputTexts, avail \in BOOLEAN, tl \in AllTargets :
         /\ avail => tl \in CallTargets
         /\ call = [NoCall EXCEPT !.phase = "ready", !.text = text,
                                  !.target = tl, !.avail = avail]

NextText ==
    \/ CallEnhanceAsr
    \/ CallTranslateAsr
    \/ CallTranslateRoot

SpecText == InitText /\ [][NextText]_vars

-----------------------------------------------------------------------------
(* Properties                                                              *)

Range(s) == {s[i] : i \in DOMAIN s}

Uploads == {"transcribe", "transcribe-and-translate"}

\* C1: no temporary file written by a finished request exists any more: the
\* file of the request that finished last is gone, and so is every other
\* (a suspended request has not written its file yet).
C1_TempFilesDeleted ==
    /\ last.tmp # 0 => last.tmp \notin tmpfiles
    /\ tmpfiles = {}

\* C2: a /transcribe request that passed validation, whose speech-model call
\* succeeded and for whose enhancement the generative service had no 200
\* answer, is answered 200 with enhanced_text equal to the transcription.
C2_EnhanceFailureNotSurfaced ==
    ( /\ last.kind = "transcribe"
      /\ last.whisperCalls = 1
      /\ ~last.whisper.raises
      /\ IsFailure(last.offered) )
    => /\ last.status = 200
       /\ last.enhanced_text = last.transcription
       /\ last.transcription = Strip(last.whisper.text)

\* C3: enhance and translate raise nothing, and return the text unchanged
\* (a) without a call when the service is flagged unavailable, whatever the
\* target code, (b) on a non-200 answer, (c) when the call or the handling of
\* its answer throws.
C3_FallbackIsInput ==
    call.phase = "returned" =>
        /\ call.res.exc = "none"
        /\ ~call.avail => (call.res.out = call.text /\ ~call.res.called)
        /\ (call.avail /\ IsFailure(call.outcome)) => call.res.out = call.text
        /\ (call.avail /\ call.outcome.body \in {"undecodable", "nonobject", "nonstr"})
               => call.res.out = call.text

\* C3 witness: a call whose answer could not be decoded returned a text with
\* surrounding whitespace as it was.
C3_Witness ==
    /\ call.phase = "returned"
    /\ call.avail
    /\ call.outcome.body = "undecodable"
    /\ call.text = <<" ", "h", "o", "l", "a", " ">>
    /\ call.res.out = call.text

\* C4: on a 200 answer with a malformed body, enhance and translate return
\* the input text exactly.
C4_MalformedIsInput ==
    ( /\ call.phase = "returned"
      /\ call.avail
      /\ call.outcome.body \in {"undecodable", "nonobject", "noresp", "nonstr"} )
    => call.res.out = call.text

\* C5: the quote step removes one leading and one trailing quote when the text
\* has both, and otherwise leaves the text as it is.
C5_OneQuotePair ==
    (call.phase = "returned" /\ call.res.cleaned) =>
        LET s == call.res.qin
        IN  IF StartsWith(s, <<QUOTE>>) /\ EndsWith(s, <<QUOTE>>)
            THEN Len(s) >= 2 => call.res.qout = SubSeq(s, 2, Len(s) - 1)
            ELSE call.res.qout = s

TranslateCleaned ==
    /\ call.phase = "returned"
    /\ call.fn \in {"translate_asr", "translate_root"}
    /\ call.res.cleaned

\* the list entries that match the start of s, case-insensitively
Matching(s, target_language) ==
    { i \in 1..5 : StartsWith(LowerStr(s), LowerStr(PrefixesToRemove(target_language)[i])) }

BadContentType(ct) == ~(ct.present /\ StartsWith(ct.value, AudioPrefix))

BadTarget(r) ==
    /\ r.kind \in {"translate", "transcribe-and-translate"}
    /\ r.target \notin DOMAIN SUPPORTED_LANGUAGES

\* C7: an upload is answered 503 when no speech model is loaded and 400 when
\* its content type does not start with "audio/" or is missing; an
\* unsupported target code is answered 400; and a request rejected for one of
\* these reasons wrote no temporary file and called neither the speech model
\* nor the generative service.
C7_HardFailuresBeforeWork ==
    LET noModel == last.kind \in Uploads /\ ~whisper_model
        badType == last.kind \in Uploads /\ BadContentType(last.ctype)
    IN  /\ noModel => last.status = 503
        /\ (BadTarget(last) /\ ~noModel) => last.status = 400
        /\ (badType /\ ~noModel /\ ~BadTarget(last)) => last.status = 400
        /\ (noModel \/ BadTarget(last) \/ badType) =>
               /\ last.tmp = 0
               /\ last.whisperCalls = 0
               /\ last.genCalls = 0

\* C8: when the speech model throws, the upload is answered 500 with the
\* model's message in the detail, the speech model was called once, and
\* neither enhance nor translate ran.
C8_SpeechFailureIs500 ==
    (last.kind \in Uploads /\ last.whisper.raises) =>
        /\ last.status = 500
        /\ last.whisper.msg \in Range(last.detail)
        /\ last.whisperCalls = 1
        /\ last.enhanceCalls = 0
        /\ last.translateCalls = 0
        /\ last.genCalls = 0

\* C8 witness: the root variant answered a failed speech-model call.
C8_Witness ==
    /\ variant = "root"
    /\ last.kind = "transcribe-and-translate"
    /\ last.whisper.raises
    /\ last.status = 500
    /\ last.detail = <<"500", ": ", "Transcription failed: ", "cannot decode audio">>

\* C9: once startup has finished no step changes whisper_model or
\* ollama_available; /health reports these values; and a request handled
\* after a failed generative-service call still makes a call for each of
\* its enhance and translate steps when the service is flagged available.
C9_FlagsFixedAfterStartup ==
    /\ [][boot = "serving" =>
             (whisper_model' = whisper_model /\ ollama_available' = ollama_available)]_vars
    /\ [](last.kind = "health" =>
             /\ last.status = 200
             /\ last.body.whisper_loaded = whisper_model
             /\ last.body.ollama_available = ollama_available)
    /\ []((last.kind \in (Uploads \cup {"translate"}) /\ last.failedBefore
              /\ ollama_available)
            => last.genCalls = last.enhanceCalls + last.translateCalls)

\* C9 witness: after a failed call, a later request called the generative
\* service twice and got a failure and an answer.
C9_Witness ==
    /\ last.failedBefore
    /\ ollama_available
    /\ last.kind = "transcribe-and-translate"
    /\ last.genCalls = 2
    /\ IsFailure(last.enh)
    /\ last.tr.body = "text"

\* C10: /models answers 200 whatever the generative service does: the
\* service's JSON when it is flagged available and answers 200 with a
\* decodable body, an error payload otherwise, without a call when it is
\* flagged unavailable.
C10_ModelsNeverRaises ==
    last.kind = "models" =>
        /\ last.status = 200
        /\ ~ollama_available => (last.genCalls = 0 /\ last.body.tag = "error")
        /\ ollama_available =>
              IF last.tags.kind = "status" /\ last.tags.code = 200
                 /\ last.tags.body # "undecodable"
              THEN last.body.tag = "models"
              ELSE last.body.tag = "error"

\* C10 witness: a 200 answer with an undecodable body became an error payload.
C10_Witness ==
    /\ last.kind = "models"
    /\ last.tags.body = "undecodable"
    /\ last.status = 200
    /\ last.body.tag = "error"
    /\ last.body.error = "JSONDecodeError"

\* a /transcribe-and-translate request that passed the three validations
PassedValidation(r) ==
    /\ r.kind = "transcribe-and-translate"
    /\ whisper_model
    /\ ~BadTarget(r)
    /\ ~BadContentType(r.ctype)

\* C11: a /transcribe-and-translate request that passed validation calls the
\* speech model once; when that call succeeds it runs enhance and then
\* translate, each once, hands translate the enhanced_text of its response,
\* and answers 200; and when the generative service is flagged unavailable the
\* response has transcription = enhanced_text = translated_text, without a
\* call of the service.
C11_StepsInOrder ==
    PassedValidation(last) =>
        /\ last.whisperCalls = 1
        /\ last.enhanceCalls <= 1
        /\ last.translateCalls <= 1
        /\ IF last.whisper.raises
           THEN last.steps = <<"whisper">>
           ELSE /\ last.steps = <<"whisper", "enhance", "translate">>
                /\ last.status = 200
                /\ last.transcription = Strip(last.whisper.text)
                /\ last.translateIn = last.enhanced_text
                /\ ~ollama_available =>
                       /\ last.enhanced_text = last.transcription
                       /\ last.translated_text = last.transcription
                       /\ last.genCalls = 0

\* the string a 200 answer gives translate to clean: the "response" field,
\* or the input text when the answer has none
AnswerField ==
    IF call.outcome.body = "noresp" THEN call.text ELSE call.outcome.resp

\* C12: on a 200 answer translate trims the answer, then removes a pair of
\* surrounding quotes, then a leading prefix: when the trimmed answer is a
\* quoted string whose content starts with a listed prefix, the returned text
\* is an end of that content behind the first listed prefix that matches it,
\* so it has lost both the quote pair and the prefix.
C12_TrimQuotePrefix ==
    TranslateCleaned =>
        LET s == Strip(AnswerField)
            quoted == Len(s) >= 2 /\ StartsWith(s, <<QUOTE>>) /\ EndsWith(s, <<QUOTE>>)
            content == SubSeq(s, 2, Len(s) - 1)
            m == Matching(content, call.target)
        IN  (quoted /\ m # {}) =>
                \E i \in m :
                   /\ \A j \in m : i <= j
                   /\ EndsWith(Drop(content, Len(PrefixesToRemove(call.target)[i])),
                               call.res.out)

\* C13: ollama_available is true only if whisper_model is set: startup is at
\* its probe or its pull only with a loaded model, a startup that ended
\* without a model left ollama_available false, and /health never reports
\* whisper_loaded = false together with ollama_available = true.
C13_AvailableOnlyIfLoaded ==
    /\ ollama_available => whisper_model
    /\ boot \in {"probe", "pull"} => whisper_model
    /\ (boot = "serving" /\ ~whisper_model) => ~ollama_available
    /\ last.kind = "health" =>
          ~(~last.body.whisper_loaded /\ last.body.ollama_available)

\* C13 witness: the model load failed, startup ended, and /health reported
\* no model and no generative service.
C13_Witness ==
    /\ boot = "serving"
    /\ ~whisper_model
    /\ ~ollama_available
    /\ last.kind = "health"
    /\ last.status = 200
    /\ ~last.body.whisper_loaded
    /\ ~last.body.ollama_available

=============================================================================
